---- MODULE Spec2Model ----
(***************************************************************************)
(* Insurance recommendation backend (backend/index.js): the validation     *)
(* middleware, the rules engine getRecommendation and the POST             *)
(* /recommendation handler with its write to the submissions table.        *)
(*                                                                         *)
(* JavaScript numbers are IEEE-754 doubles.  The engine multiplies by the  *)
(* literals 1.2, 0.8 and 1.3, none of which is a binary fraction, so the   *)
(* model carries a double as the exact dyadic rational num / 2^k it holds  *)
(* and rounds every product and quotient to 53 significant bits, ties to   *)
(* even, as the hardware does.  num is a natural number of up to 106 bits, *)
(* kept as a little-endian sequence of 14-bit limbs.                       *)
(***************************************************************************)
EXTENDS Integers, Sequences, FiniteSets, TLC

VARIABLES
    pc,          \* pc[r]: where request r is in the middleware chain
    body,        \* body[r]: req.body of request r, as parsed by express.json
    rec,         \* rec[r]: the handler's local `recommendation`
    query,       \* query[r]: the promise of pool.query(query, values)
    response,    \* response[r]: what res.status(..).json(..) sent
    submissions, \* the rows of the submissions table, in insertion order
    alive,       \* FALSE once process.exit has run
    idle,        \* the number of clients of the pool that are idle
    call         \* the frame of one direct call of getRecommendation

vars == <<pc, body, rec, query, response, submissions, alive, idle, call>>

-----------------------------------------------------------------------------
(* Natural numbers wider than a machine word: little-endian limbs.          *)

LimbBits == 14
Base == 16384

RECURSIVE Pow2(_)
Pow2(n) == IF n = 0 THEN 1 ELSE 2 * Pow2(n - 1)

RECURSIVE Limbs(_)
Limbs(n) == IF n = 0 THEN <<>> ELSE <<n % Base>> \o Limbs(n \div Base)

RECURSIVE Trim(_)
Trim(a) ==
    IF a = <<>> THEN a
    ELSE IF a[Len(a)] = 0 THEN Trim(SubSeq(a, 1, Len(a) - 1)) ELSE a

Limb(a, i) == IF i >= 1 /\ i <= Len(a) THEN a[i] ELSE 0

RECURSIVE ToInt(_)
ToInt(a) == IF a = <<>> THEN 0 ELSE a[1] + Base * ToInt(Tail(a))

RECURSIVE Column(_, _, _, _)
Column(a, b, k, i) ==
    IF i > Len(a) THEN 0
    ELSE Limb(a, i) * Limb(b, k - i + 1) + Column(a, b, k, i + 1)

RECURSIVE MulFrom(_, _, _, _)
MulFrom(a, b, k, carry) ==
    IF k > Len(a) + Len(b) THEN <<>>
    ELSE LET s == carry + Column(a, b, k, 1)
         IN  <<s % Base>> \o MulFrom(a, b, k + 1, s \div Base)

BigMul(a, b) == Trim(MulFrom(a, b, 1, 0))

RECURSIVE SmallBits(_)
SmallBits(n) == IF n = 0 THEN 0 ELSE 1 + SmallBits(n \div 2)

BitLen(a) ==
    LET t == Trim(a)
    IN  IF t = <<>> THEN 0 ELSE (Len(t) - 1) * LimbBits + SmallBits(t[Len(t)])

Bit(a, i) == (Limb(a, (i \div LimbBits) + 1) \div Pow2(i % LimbBits)) % 2

LowZero(a, n) ==
    /\ \A j \in 1..(n \div LimbBits) : Limb(a, j) = 0
    /\ Limb(a, (n \div LimbBits) + 1) % Pow2(n % LimbBits) = 0

Shr(a, s) ==
    LET ls == s \div LimbBits
        bs == s % LimbBits
    IN  Trim([j \in 1..(IF Len(a) > ls THEN Len(a) - ls ELSE 0) |->
                (Limb(a, j + ls) \div Pow2(bs))
                + (Limb(a, j + ls + 1) % Pow2(bs)) * Pow2(LimbBits - bs)])

RECURSIVE Inc(_)
Inc(a) ==
    IF a = <<>> THEN <<1>>
    ELSE IF a[1] + 1 < Base THEN <<a[1] + 1>> \o Tail(a)
    ELSE <<0>> \o Inc(Tail(a))

RECURSIVE DivFrom(_, _, _, _)
DivFrom(a, d, i, r) ==
    IF i = 0 THEN [q |-> <<>>, r |-> r]
    ELSE LET cur  == r * Base + a[i]
             rest == DivFrom(a, d, i - 1, cur % d)
         IN  [q |-> rest.q \o <<cur \div d>>, r |-> rest.r]

DivSmall(a, d) ==
    LET res == DivFrom(a, d, Len(a), 0) IN [q |-> Trim(res.q), r |-> res.r]

-----------------------------------------------------------------------------
(* Doubles: the value num / 2^k, num of at most 53 significant bits.        *)

Mantissa == 53

Round53(p, k, sticky) ==
    LET len == BitLen(p)
    IN  IF len <= Mantissa THEN [num |-> Trim(p), k |-> k]
        ELSE LET s     == len - Mantissa
                 q     == Shr(p, s)
                 guard == Bit(p, s - 1) = 1
                 rest  == sticky \/ ~LowZero(p, s - 1)
                 up    == guard /\ (rest \/ Bit(q, 0) = 1)
             IN  [num |-> IF up THEN Inc(q) ELSE q, k |-> k - s]

FromInt(n) == [num |-> Limbs(n), k |-> 0]

FMul(x, y) == Round53(BigMul(x.num, y.num), x.k + y.k, FALSE)

DivShift == 5

FDiv(x, d) ==
    LET shifted == [j \in 1..DivShift |-> 0] \o x.num
        res     == DivSmall(shifted, d)
    IN  Round53(res.q, x.k + DivShift * LimbBits, res.r # 0)

\* Faulty variant: Math.floor written for Math.round.
MathFloor(x) == ToInt(Shr(x.num, x.k))

MathRound(x) ==
    ToInt(Shr(x.num, x.k)) + (IF x.k >= 1 THEN Bit(x.num, x.k - 1) ELSE 0)

\* 1.2 = 0x3FF3333333333333, 0.8 = 0x3FE999999999999A, 1.3 = 0x3FF4CCCCCCCCCCCD
Lit1_2 == [num |-> <<13107, 3276, 13107, 1228>>, k |-> 52]
Lit0_8 == [num |-> <<3277, 13107, 3276, 819>>, k |-> 52]
Lit1_3 == [num |-> <<3277, 13107, 3276, 1331>>, k |-> 52]

-----------------------------------------------------------------------------
(* getRecommendation, index.js 69-115.                                      *)

Low == "Low"
Medium == "Medium"
High == "High"

BaseCoverage(income) == income * 10

\* Faulty variant: `=` written for `+=`.
DependentsAssigned(coverage, dependents) ==
    IF dependents > 0 THEN dependents * 250000 ELSE coverage

DependentsStep(coverage, dependents) ==
    IF dependents > 0 THEN coverage + dependents * 250000 ELSE coverage

\* Faulty variant: the age boundaries taken inclusively.
AgeStepInclusive(coverage, age) ==
    IF age <= 30 THEN FMul(coverage, Lit1_2)
    ELSE IF age >= 50 THEN FMul(coverage, Lit0_8)
    ELSE coverage

AgeStep(coverage, age) ==
    IF age < 30 THEN FMul(coverage, Lit1_2)
    ELSE IF age > 50 THEN FMul(coverage, Lit0_8)
    ELSE coverage

\* Faulty variant: the `break` of case 'Low' left out, so Low falls through
\* into case 'Medium'.
RiskStepFallThrough(coverage, riskTolerance) ==
    IF riskTolerance = Low THEN
        [type |-> "Term Life", coverage |-> FMul(coverage, Lit0_8), duration |-> 20,
         explanation |-> "Balanced profile: standard coverage and term."]
    ELSE IF riskTolerance = Medium THEN
        [type |-> "Term Life", coverage |-> coverage, duration |-> 20,
         explanation |-> "Balanced profile: standard coverage and term."]
    ELSE IF riskTolerance = High THEN
        [type |-> "Whole Life", coverage |-> FMul(coverage, Lit1_3), duration |-> 30,
         explanation |-> "Aggressive profile: higher coverage, longer term, whole life."]
    ELSE
        [type |-> "Term Life", coverage |-> coverage, duration |-> 20,
         explanation |-> ""]

\* The switch on riskTolerance; a value matching no case changes nothing.
RiskStep(coverage, riskTolerance) ==
    IF riskTolerance = Low THEN
        [type |-> "Term Life", coverage |-> FMul(coverage, Lit0_8), duration |-> 15,
         explanation |-> "Conservative profile: moderate coverage, shorter term."]
    ELSE IF riskTolerance = Medium THEN
        [type |-> "Term Life", coverage |-> coverage, duration |-> 20,
         explanation |-> "Balanced profile: standard coverage and term."]
    ELSE IF riskTolerance = High THEN
        [type |-> "Whole Life", coverage |-> FMul(coverage, Lit1_3), duration |-> 30,
         explanation |-> "Aggressive profile: higher coverage, longer term, whole life."]
    ELSE
        [type |-> "Term Life", coverage |-> coverage, duration |-> 20,
         explanation |-> ""]

\* Faulty variant: rounds to the dollar.
RoundToDollar(coverage) == MathRound(coverage)

RoundToThousand(coverage) == MathRound(FDiv(coverage, 1000)) * 1000

\* Faulty variant: a group printed without its leading zeros.
Pad3Unpadded(n) == ToString(n)

Pad3(n) ==
    IF n < 10 THEN "00" \o ToString(n)
    ELSE IF n < 100 THEN "0" \o ToString(n)
    ELSE ToString(n)

\* Number.prototype.toLocaleString of a whole number, en-US grouping.
RECURSIVE toLocaleString(_)
toLocaleString(n) ==
    IF n < 1000 THEN ToString(n)
    ELSE toLocaleString(n \div 1000) \o "," \o Pad3(n % 1000)

\* The locals of getRecommendation when it returns.
Locals(p) ==
    LET afterAge == AgeStep(FromInt(DependentsStep(BaseCoverage(p.income), p.dependents)),
                            p.age)
        risk     == RiskStep(afterAge, p.riskTolerance)
    IN  [afterAge    |-> afterAge,
         afterRisk   |-> risk.coverage,
         type        |-> risk.type,
         coverage    |-> RoundToThousand(risk.coverage),
         duration    |-> risk.duration,
         explanation |-> risk.explanation]

Returned(l) ==
    [type        |-> l.type,
     coverage    |-> "$" \o toLocaleString(l.coverage),
     duration    |-> ToString(l.duration) \o " years",
     explanation |-> l.explanation]

getRecommendation(p) == Returned(Locals(p))

-----------------------------------------------------------------------------
(* JSON values of req.body.  A number that is not whole is kept as its      *)
(* floor n, standing for n + 1/2.                                           *)

Undefined == [t |-> "undefined", n |-> 0, s |-> ""]
Null == [t |-> "null", n |-> 0, s |-> ""]
Num(i) == [t |-> "number", n |-> i, s |-> ""]
Half(i) == [t |-> "fraction", n |-> i, s |-> ""]
Str(x) == [t |-> "string", n |-> 0, s |-> x]
False == [t |-> "boolean", n |-> 0, s |-> ""]
True == [t |-> "boolean", n |-> 1, s |-> ""]

Body(age, income, dependents, riskTolerance) ==
    [age |-> age, income |-> income, dependents |-> dependents,
     riskTolerance |-> riskTolerance]

\* The operator ! of JavaScript: true of undefined, null, 0, "" and false.
Falsy(v) ==
    \/ v.t \in {"undefined", "null"}
    \/ v.t = "number" /\ v.n = 0
    \/ v.t = "string" /\ v.s = ""
    \/ v.t = "boolean" /\ v.n = 0

IsInteger(v) == v.t = "number"

-----------------------------------------------------------------------------
(* validateRecommendationInput, index.js 29-66.                             *)

RequiredFields == <<"age", "income", "dependents", "riskTolerance">>

MissingError == [status |-> 400, error |-> "Missing required fields",
                 required |-> RequiredFields]
AgeError == [status |-> 400, error |-> "Age must be an integer between 18 and 80"]
IncomeError ==
    [status |-> 400, error |-> "Income must be an integer between 20,000 and 10,000,000"]
DependentsError ==
    [status |-> 400, error |-> "Dependents must be an integer between 0 and 10"]
RiskError == [status |-> 400, error |-> "Risk tolerance must be Low, Medium, or High"]
NoResponse == [status |-> 0]

MissingCheck(b) ==
    Falsy(b.age) \/ Falsy(b.income) \/ Falsy(b.dependents) \/ Falsy(b.riskTolerance)

\* Faulty variant: the upper bound of age forgotten.
AgeCheckNoUpper(b) == ~IsInteger(b.age) \/ b.age.n < 18

AgeCheck(b) == ~IsInteger(b.age) \/ b.age.n < 18 \/ b.age.n > 80

IncomeCheck(b) == ~IsInteger(b.income) \/ b.income.n < 20000 \/ b.income.n > 10000000

DependentsCheck(b) ==
    ~IsInteger(b.dependents) \/ b.dependents.n < 0 \/ b.dependents.n > 10

RiskCheck(b) ==
    ~(b.riskTolerance.t = "string" /\ b.riskTolerance.s \in {Low, Medium, High})

\* The response the middleware sends, or NoResponse when it calls next().
Validation(b) ==
    IF MissingCheck(b) THEN MissingError
    ELSE IF AgeCheck(b) THEN AgeError
    ELSE IF IncomeCheck(b) THEN IncomeError
    ELSE IF DependentsCheck(b) THEN DependentsError
    ELSE IF RiskCheck(b) THEN RiskError
    ELSE NoResponse

-----------------------------------------------------------------------------
(* Bounds and the request bodies the model sends.                           *)

MaxRequests == 2
IncomeSteps == 3

Requests == 1..MaxRequests

\* Bodies of the concurrent specification.
Bodies ==
    {Body(Num(30), Num(75000), Num(2), Str(Medium)),
     Body(Num(25), Num(50000), Num(1), Str(High)),
     Body(Num(25), Num(50000), Num(0), Str(High)),
     Body(Num(17), Num(50000), Num(2), Str(Low)),
     Body(Num(30), Num(75000), Num(2), Undefined)}

AgeValues ==
    {Undefined, Null, Num(0), Num(17), Num(18), Num(25), Num(30), Num(50), Num(51),
     Num(80), Num(81), Str("25"), Half(25)}
IncomeValues ==
    {Undefined, Num(0), Num(19999), Num(20000), Num(50000), Num(75000), Num(10000000),
     Num(10000001), Str("50000"), Half(50000)}
DependentsValues ==
    {Undefined, Num(0), Num(1), Num(2), Num(10), Num(11), Num(-1), Str("2"), Half(1)}
RiskValues ==
    {Undefined, Str(""), Str(Low), Str(Medium), Str(High), Str("Unknown"), Num(1), True}

\* Bodies of the one-request specification: every combination of the above.
SweepBodies ==
    {Body(a, i, d, k) : a \in AgeValues, i \in IncomeValues, d \in DependentsValues,
                        k \in RiskValues}

\* Profiles handed to getRecommendation directly.
Profiles ==
    [age : {18, 29, 30, 31, 50, 51, 80},
     income : {20000, 20125, 20500, 20625, 21250, 50000, 75000, 10000000}
              \cup {20000 + 1234567 * j : j \in 1..IncomeSteps},
     dependents : 0..10,
     riskTolerance : {Low, Medium, High}]

-----------------------------------------------------------------------------
(* The server: POST /recommendation, index.js 123-172, the pool, index.js   *)
(* 10-19, and the submissions table.  The response's timestamp (the clock)  *)
(* is left out.                                                             *)

NoRec == [type |-> "", coverage |-> "", duration |-> "", explanation |-> ""]
NoBody == Body(Undefined, Undefined, Undefined, Undefined)
StorageErrors == {"connection", "constraint"}

\* The destructured req.body of a request the middleware let through.
Profile(b) ==
    [age |-> b.age.n, income |-> b.income.n, dependents |-> b.dependents.n,
     riskTolerance |-> b.riskTolerance.s]

Row(id, b, r) ==
    [id |-> id, age |-> b.age.n, income |-> b.income.n, dependents |-> b.dependents.n,
     risk_tolerance |-> b.riskTolerance.s, recommendation_type |-> r.type,
     coverage |-> r.coverage, duration |-> r.duration, explanation |-> r.explanation]

Success(r) == [status |-> 200, success |-> TRUE, recommendation |-> r]

Init ==
    /\ pc = [r \in Requests |-> "Idle"]
    /\ body = [r \in Requests |-> NoBody]
    /\ rec = [r \in Requests |-> NoRec]
    /\ query = [r \in Requests |-> "none"]
    /\ response = [r \in Requests |-> NoResponse]
    /\ submissions = <<>>
    /\ alive = TRUE
    /\ idle = 0
    /\ call = [state |-> "idle"]

\* A request arrives with one of `bodies`; requests are numbered in arrival
\* order.
Receive(r, bodies) ==
    /\ alive
    /\ pc[r] = "Idle"
    /\ \A q \in Requests : q < r => pc[q] # "Idle"
    /\ pc' = [pc EXCEPT ![r] = "Validating"]
    /\ \E b \in bodies : body' = [body EXCEPT ![r] = b]
    /\ UNCHANGED <<rec, query, response, submissions, alive, idle, call>>

\* Faulty variant: a failed check returns without res.status(400).json(..).
validateWithoutResponse(r) ==
    /\ alive
    /\ pc[r] = "Validating"
    /\ IF Validation(body[r]) # NoResponse
       THEN pc' = [pc EXCEPT ![r] = "Rejected"]
       ELSE pc' = [pc EXCEPT ![r] = "Computing"]
    /\ UNCHANGED <<body, rec, query, response, submissions, alive, idle, call>>

validateRecommendationInput(r) ==
    /\ alive
    /\ pc[r] = "Validating"
    /\ IF Validation(body[r]) # NoResponse
       THEN /\ response' = [response EXCEPT ![r] = Validation(body[r])]
            /\ pc' = [pc EXCEPT ![r] = "Rejected"]
       ELSE /\ pc' = [pc EXCEPT ![r] = "Computing"]
            /\ UNCHANGED response
    /\ UNCHANGED <<body, rec, query, submissions, alive, idle, call>>

\* getRecommendation is pure: its value on every body the middleware lets
\* through is computed once and looked up by the handler.
Accepted == {b \in Bodies \cup SweepBodies : Validation(b) = NoResponse}
Recommendations == [p \in {Profile(b) : b \in Accepted} |-> getRecommendation(p)]

\* The handler up to its await: the recommendation, then pool.query is issued,
\* on an idle client of the pool if there is one and on a new client if not.
Handler(r) ==
    /\ alive
    /\ pc[r] = "Computing"
    /\ rec' = [rec EXCEPT ![r] = Recommendations[Profile(body[r])]]
    /\ query' = [query EXCEPT ![r] = "pending"]
    /\ pc' = [pc EXCEPT ![r] = "Awaiting"]
    /\ idle' = IF idle > 0 THEN idle - 1 ELSE idle
    /\ UNCHANGED <<body, response, submissions, alive, call>>

\* Faulty variant: the INSERT is run twice.
StorageInsertTwice(r) ==
    /\ alive
    /\ query[r] = "pending"
    /\ submissions' = Append(Append(submissions,
                                    Row(Len(submissions) + 1, body[r], rec[r])),
                             Row(Len(submissions) + 2, body[r], rec[r]))
    /\ query' = [query EXCEPT ![r] = "fulfilled"]
    /\ UNCHANGED <<pc, body, rec, response, alive, idle, call>>

\* The storage runs the INSERT and answers with the new row's id.
StorageInsert(r) ==
    /\ alive
    /\ query[r] = "pending"
    /\ submissions' = Append(submissions, Row(Len(submissions) + 1, body[r], rec[r]))
    /\ query' = [query EXCEPT ![r] = "fulfilled"]
    /\ UNCHANGED <<pc, body, rec, response, alive, idle, call>>

\* The storage, or the connection to it, fails the query.
StorageFail(r) ==
    /\ alive
    /\ query[r] = "pending"
    /\ \E e \in StorageErrors : query' = [query EXCEPT ![r] = e]
    /\ UNCHANGED <<pc, body, rec, response, submissions, alive, idle, call>>

\* Faulty variant: after a failed write the response carries a fallback
\* recommendation instead of the one computed.
RespondFallback(r) ==
    /\ alive
    /\ pc[r] = "Awaiting"
    /\ query[r] \notin {"none", "pending"}
    /\ response' = [response EXCEPT ![r] =
                        IF query[r] = "fulfilled" THEN Success(rec[r])
                        ELSE Success([rec[r] EXCEPT !.explanation = ""])]
    /\ pc' = [pc EXCEPT ![r] = "Responded"]
    /\ idle' = IF query[r] = "fulfilled" THEN idle + 1 ELSE idle
    /\ UNCHANGED <<body, rec, query, submissions, alive, call>>

\* Faulty variant: no inner try/catch, so a rejected query lands in the outer catch.
RespondUncaught(r) ==
    /\ alive
    /\ pc[r] = "Awaiting"
    /\ query[r] \notin {"none", "pending"}
    /\ response' = [response EXCEPT ![r] =
                        IF query[r] = "fulfilled" THEN Success(rec[r])
                        ELSE [status |-> 500, error |-> "Internal server error",
                              message |-> "Failed to generate recommendation"]]
    /\ pc' = [pc EXCEPT ![r] = "Responded"]
    /\ idle' = IF query[r] = "fulfilled" THEN idle + 1 ELSE idle
    /\ UNCHANGED <<body, rec, query, submissions, alive, call>>

\* The handler after its await: log or catch, then res.json.  The client of
\* a fulfilled query went back to the pool as the promise settled, within the
\* same turn of the loop; the client of a failed query is dropped.
Respond(r) ==
    /\ alive
    /\ pc[r] = "Awaiting"
    /\ query[r] \notin {"none", "pending"}
    /\ response' = [response EXCEPT ![r] = Success(rec[r])]
    /\ pc' = [pc EXCEPT ![r] = "Responded"]
    /\ idle' = IF query[r] = "fulfilled" THEN idle + 1 ELSE idle
    /\ UNCHANGED <<body, rec, query, submissions, alive, call>>

\* pool.on('error'): a client idle in the pool fails and the process exits.
IdleClientError ==
    /\ alive
    /\ idle > 0
    /\ alive' = FALSE
    /\ UNCHANGED <<pc, body, rec, query, response, submissions, idle, call>>

Step(r) ==
    \/ validateRecommendationInput(r)
    \/ Handler(r)
    \/ StorageInsert(r)
    \/ StorageFail(r)
    \/ Respond(r)

Next ==
    \/ \E r \in Requests : Receive(r, Bodies)
    \/ \E r \in Requests : Step(r)
    \/ IdleClientError

Spec == Init /\ [][Next]_vars

\* A step of the server itself: a callback of the event loop.
NodeStep ==
    \E r \in Requests : validateRecommendationInput(r) \/ Handler(r) \/ Respond(r)

\* Node runs a callback that is ready; the storage owes nothing.
FairSpec == Spec /\ WF_vars(NodeStep)

\* One request, every body.
SweepNext ==
    \/ Receive(1, SweepBodies)
    \/ Step(1)
    \/ IdleClientError

SweepSpec == Init /\ [][SweepNext]_vars

\* getRecommendation called directly.
Call(p) ==
    /\ call.state = "idle"
    /\ call' = [state |-> "called", profile |-> p]
    /\ UNCHANGED <<pc, body, rec, query, response, submissions, alive, idle>>

Return ==
    /\ call.state = "called"
    /\ call' = [state |-> "returned", profile |-> call.profile,
                locals |-> Locals(call.profile),
                ret |-> getRecommendation(call.profile)]
    /\ UNCHANGED <<pc, body, rec, query, response, submissions, alive, idle>>

EngineNext ==
    \/ \E p \in Profiles : Call(p)
    \/ Return

EngineSpec == Init /\ [][EngineNext]_vars

-----------------------------------------------------------------------------
(* What the specification asks of a profile (data model invariants) and of  *)
(* an error, stated apart from the code.                                    *)

Fields == {"age", "income", "dependents", "riskTolerance"}

ValidAge(v) == v.t = "number" /\ 18 <= v.n /\ v.n <= 80
ValidIncome(v) == v.t = "number" /\ 20000 <= v.n /\ v.n <= 10000000
ValidDependents(v) == v.t = "number" /\ 0 <= v.n /\ v.n <= 10
ValidRisk(v) == v.t = "string" /\ v.s \in {"Low", "Medium", "High"}

ValidBody(b) ==
    ValidAge(b.age) /\ ValidIncome(b.income) /\ ValidDependents(b.dependents)
    /\ ValidRisk(b.riskTolerance)

Offending(b) ==
    {f \in Fields :
        \/ f = "age" /\ ~ValidAge(b.age)
        \/ f = "income" /\ ~ValidIncome(b.income)
        \/ f = "dependents" /\ ~ValidDependents(b.dependents)
        \/ f = "riskTolerance" /\ ~ValidRisk(b.riskTolerance)}

\* The fields an error response names: its `required` list when it has one,
\* else the field its message is about.
FieldsNamed(resp) ==
    IF "required" \in DOMAIN resp THEN {resp.required[i] : i \in DOMAIN resp.required}
    ELSE IF resp = AgeError THEN {"age"}
    ELSE IF resp = IncomeError THEN {"income"}
    ELSE IF resp = DependentsError THEN {"dependents"}
    ELSE IF resp = RiskError THEN {"riskTolerance"}
    ELSE {}

Finished(r) == pc[r] \in {"Rejected", "Responded"}

-----------------------------------------------------------------------------
(* C1..C10                                                                  *)

C1Example == Body(Num(25), Num(50000), Num(0), Str("High"))

\* C1: a finished request was answered with the success response exactly when
\* its body satisfies the data model invariants (dependents = 0 included), and
\* {age:25, income:50000, dependents:0, riskTolerance:"High"} is answered Whole
\* Life, $780,000, 30 years.
C1_AcceptsExactlyValid ==
    \A r \in Requests :
        Finished(r) =>
            /\ ValidBody(body[r]) <=> (pc[r] = "Responded" /\ response[r].status = 200)
            /\ body[r] = C1Example =>
                /\ response[r].status = 200
                /\ response[r].recommendation.type = "Whole Life"
                /\ response[r].recommendation.coverage = "$780,000"
                /\ response[r].recommendation.duration = "30 years"

\* C2: once the write of a request has failed, in whichever way, the only
\* response the request gets is the success response with the recommendation of
\* its own body, the one it gets when the write succeeds; the request is not
\* held back, and no error response is sent.
C2_AuditFailureIsolated ==
    \A r \in Requests :
        query[r] \notin {"none", "pending"} =>
            /\ pc[r] \in {"Awaiting", "Responded"}
            /\ pc[r] = "Awaiting" => response[r] = NoResponse /\ (alive => ENABLED Respond(r))
            /\ pc[r] = "Responded" =>
                response[r] = Success(getRecommendation(Profile(body[r])))

C2_Witness ==
    \E r \in Requests :
        /\ query[r] \in StorageErrors
        /\ pc[r] = "Responded"
        /\ response[r].status = 200
        /\ response[r].recommendation.coverage = "$1,250,000"

\* C3: the response does not wait for the write: while the write of an accepted
\* request is outstanding the response can already be sent.
C3_ResponseDoesNotAwaitWrite ==
    \A r \in Requests :
        (alive /\ pc[r] = "Awaiting" /\ query[r] = "pending") => ENABLED Respond(r)

\* C4: every write that was issued is settled in the end, and every request that
\* passed validation is answered in the end, even if the storage never answers
\* (as long as the process runs).
C4_WriteEventuallySettled ==
    \A r \in Requests :
        /\ (query[r] = "pending") ~> (query[r] # "pending" \/ ~alive)
        /\ (pc[r] = "Computing") ~> (pc[r] = "Responded" \/ ~alive)

\* The cases C5 lists: one field offends, and it is missing or has one of the
\* listed values.
C5Case(b) ==
    /\ Cardinality(Offending(b)) = 1
    /\ \/ \E f \in Offending(b) : b[f] = Undefined
       \/ b.age \in {Num(17), Num(81)}
       \/ b.income = Num(19999)
       \/ b.dependents = Num(11)
       \/ b.riskTolerance = Str("Unknown")

\* C5: each listed case is rejected with a client error that names the offending
\* field and no other (so the errors of different fields differ); for a missing
\* field, the field that is missing.
C5_RejectionsIdentifyField ==
    \A r \in Requests :
        (Finished(r) /\ C5Case(body[r])) =>
            /\ pc[r] = "Rejected"
            /\ response[r].status = 400
            /\ FieldsNamed(response[r]) = Offending(body[r])

\* C6: a request whose body violates an invariant goes no further than the
\* validator: no recommendation is computed, no write is issued, no row is
\* stored for it, and it ends Rejected with the validator's error.
C6_ValidationGates ==
    /\ \A r \in Requests :
        (pc[r] # "Idle" /\ ~ValidBody(body[r])) =>
            /\ pc[r] \in {"Validating", "Rejected"}
            /\ rec[r] = NoRec
            /\ query[r] = "none"
            /\ pc[r] = "Rejected" =>
                /\ response[r].status = 400
                /\ FieldsNamed(response[r]) \cap Offending(body[r]) # {}
            /\ pc[r] = "Validating" => response[r] = NoResponse
    /\ \A i \in DOMAIN submissions :
        \E r \in Requests : ValidBody(body[r]) /\ submissions[i] = Row(i, body[r], rec[r])

C6_Witness ==
    \E r \in Requests :
        pc[r] = "Rejected" /\ body[r] = Body(Num(81), Num(75000), Num(2), Str("Medium"))

C7Example == Body(Num(30), Num(75000), Num(2), Str("Medium"))

\* C7: {age:30, income:75000, dependents:2, riskTolerance:"Medium"} is accepted
\* and answered Term Life, $1,250,000, 20 years, "Balanced profile: standard
\* coverage and term."
C7_DocumentedExample ==
    \A r \in Requests :
        body[r] = C7Example =>
            /\ pc[r] # "Rejected"
            /\ pc[r] = "Responded" =>
                response[r] =
                    [status |-> 200, success |-> TRUE,
                     recommendation |->
                        [type |-> "Term Life", coverage |-> "$1,250,000",
                         duration |-> "20 years",
                         explanation |-> "Balanced profile: standard coverage and term."]]

C7_Witness == \E r \in Requests : body[r] = C7Example /\ pc[r] = "Responded"

\* C8: for every valid profile the coverage amount the engine returns is a
\* multiple of 1000.
C8_CoverageMultipleOf1000 ==
    call.state = "returned" =>
        /\ call.locals.coverage % 1000 = 0
        /\ call.ret.coverage = "$" \o toLocaleString(1000 * (call.locals.coverage \div 1000))

\* A profile whose coverage before the rounding is no multiple of 1000.
C8_Witness ==
    /\ call.state = "returned"
    /\ MathRound(call.locals.afterRisk) % 1000 # 0
    /\ call.profile.dependents = 0

\* C9: for every valid profile with fewer than 10 dependents, one dependent more
\* (age, income and risk tolerance the same) never gives a smaller coverage.
C9_MonotoneInDependents ==
    (call.state = "returned" /\ call.profile.dependents < 10) =>
        Locals([call.profile EXCEPT !.dependents = @ + 1]).coverage >= call.locals.coverage

C9_Witness ==
    /\ call.state = "returned"
    /\ call.profile.dependents = 0
    /\ call.profile.income = 10000000
    /\ Locals([call.profile EXCEPT !.dependents = 1]).coverage > call.locals.coverage

\* C10: the coverage before the risk step is income * 10 + dependents * 250000
\* unchanged for ages 30 to 50, both included; it is 1.2 times that (to the
\* dollar) exactly when age < 30 and 0.8 times that exactly when age > 50.
C10_AgeBoundaries ==
    call.state = "returned" =>
        LET p    == call.profile
            base == p.income * 10 + p.dependents * 250000
        IN  /\ (p.age >= 30 /\ p.age <= 50) <=> call.locals.afterAge = FromInt(base)
            /\ p.age < 30 <=> MathRound(call.locals.afterAge) = 12 * (base \div 10)
            /\ p.age > 50 <=> MathRound(call.locals.afterAge) = 8 * (base \div 10)

C10_Witness ==
    /\ call.state = "returned"
    /\ call.profile.age = 50
    /\ call.locals.afterAge = FromInt(call.profile.income * 10 + call.profile.dependents * 250000)

-----------------------------------------------------------------------------
(* C11..C17                                                                 *)

\* C11: for every valid profile, High gives Whole Life for 30 years, Low gives
\* Term Life for 15 years and Medium gives Term Life for 20 years, each with the
\* fixed, non-empty explanation of its risk value; the term is one of 15, 20, 30.
C11_EnumExhaustive ==
    call.state = "returned" =>
        LET k == call.profile.riskTolerance
            l == call.locals
        IN  /\ l.duration \in {15, 20, 30}
            /\ l.explanation # ""
            /\ k = "High" =>
                /\ l.type = "Whole Life" /\ l.duration = 30
                /\ call.ret.type = "Whole Life" /\ call.ret.duration = "30 years"
                /\ call.ret.explanation
                    = "Aggressive profile: higher coverage, longer term, whole life."
            /\ k = "Low" =>
                /\ l.type = "Term Life" /\ l.duration = 15
                /\ call.ret.type = "Term Life" /\ call.ret.duration = "15 years"
                /\ call.ret.explanation
                    = "Conservative profile: moderate coverage, shorter term."
            /\ k = "Medium" =>
                /\ l.type = "Term Life" /\ l.duration = 20
                /\ call.ret.type = "Term Life" /\ call.ret.duration = "20 years"
                /\ call.ret.explanation = "Balanced profile: standard coverage and term."

C11_Witness ==
    /\ call.state = "returned"
    /\ call.profile.riskTolerance = "Low"
    /\ call.ret.duration = "15 years"

\* C12: two accepted requests with the same body are answered with the same
\* recommendation, whatever was interleaved with them and however their writes
\* ended; the recommendation of a request is a function of its own body alone.
C12_SameBodySameRecommendation ==
    \A r, q \in Requests :
        (pc[r] = "Responded" /\ pc[q] = "Responded") =>
            /\ response[r].status = 200
            /\ response[r].recommendation = rec[r]
            /\ rec[r] = getRecommendation(Profile(body[r]))
            /\ body[r] = body[q] => response[r].recommendation = response[q].recommendation

\* Two requests with one body, one write stored and one failed, both answered.
C12_Witness ==
    /\ MaxRequests >= 2
    /\ pc[1] = "Responded" /\ pc[2] = "Responded"
    /\ body[1] = body[2]
    /\ query[1] = "fulfilled" /\ query[2] = "connection"

\* The validator the specification describes: a field is absent, or it has the
\* wrong primitive type, or it has the right type and breaks its range or enum.
Absent(b) == {f \in Fields : b[f] = Undefined}
WrongType(b) ==
    {f \in Fields \ Absent(b) :
        IF f = "riskTolerance" THEN b[f].t # "string" ELSE b[f].t # "number"}
OutOfRange(b) == Offending(b) \ (Absent(b) \cup WrongType(b))

\* C13: presence of all fields is checked first, then the type of every field,
\* then the ranges, and only the first violation is reported: a body with an
\* absent field gets the missing-field error; a body with all fields present
\* and a mistyped field gets the error of a mistyped field, even when another
\* field is out of range; a body of present, rightly typed values with one out
\* of range (age = 0, say) gets the error of that field, not the missing-field
\* error.  (Bodies holding null are left aside.)
C13_PresenceThenTypeThenRange ==
    \A r \in Requests :
        (pc[r] = "Rejected" /\ Null \notin {body[r][f] : f \in Fields}) =>
            LET b == body[r]
            IN  /\ Absent(b) # {} => response[r] = MissingError
                /\ (Absent(b) = {} /\ WrongType(b) # {}) =>
                    /\ response[r] # MissingError
                    /\ FieldsNamed(response[r]) \subseteq WrongType(b)
                /\ (Absent(b) = {} /\ WrongType(b) = {}) =>
                    /\ response[r] # MissingError
                    /\ FieldsNamed(response[r]) \subseteq OutOfRange(b)

\* The exact reference: the multipliers in tenths, the sum in tens of dollars
\* (income * 10 + dependents * 250000 is a multiple of 10), one rounding half up
\* of the quotient by 1000 at the end.
AgeTenths(age) == IF age < 30 THEN 12 ELSE IF age > 50 THEN 8 ELSE 10
RiskTenths(k) == IF k = Low THEN 8 ELSE IF k = High THEN 13 ELSE 10
ExactTenThousandths(p) ==
    (p.income + p.dependents * 25000) * (AgeTenths(p.age) * RiskTenths(p.riskTolerance))
ExactCoverage(p) == 1000 * ((ExactTenThousandths(p) + 5000) \div 10000)

\* C14: for every valid profile the coverage amount the engine returns equals
\* 1000 * round-half-up(((income * 10 + dependents * 250000) * a) * r / 1000)
\* computed in exact arithmetic, a = 12/10 below 30, 8/10 above 50, else 1, and
\* r = 8/10 for Low, 1 for Medium, 13/10 for High.
C14_MatchesExactReference ==
    call.state = "returned" =>
        /\ call.locals.coverage = ExactCoverage(call.profile)
        /\ call.ret.coverage = "$" \o toLocaleString(ExactCoverage(call.profile))

\* A profile whose exact quotient by 1000 lies half way between two integers
\* after two multiplications by literals no double represents.
C14_Witness ==
    /\ call.state = "returned"
    /\ ExactTenThousandths(call.profile) % 10000 = 5000
    /\ call.profile.age < 30
    /\ call.profile.riskTolerance = High
    /\ call.profile.dependents > 0

InFlight(r) == pc[r] = "Awaiting" /\ query[r] = "pending"

\* C15: a failure of the storage collaborator, a failed write or an error
\* raised on an idle pooled connection, never terminates the process under a
\* request in flight: every request that awaits its write is held by a live
\* process, which can still send its response.
C15_FailureContained == \A r \in Requests : InFlight(r) => alive

\* The state of a request in the specification's terms: the handler computes
\* until it responds, its await included.
Stage(r) == IF pc[r] = "Awaiting" THEN "Computing" ELSE pc[r]

Transitions ==
    {<<"Idle", "Validating">>, <<"Validating", "Rejected">>,
     <<"Validating", "Computing">>, <<"Computing", "Responded">>}

ValidationErrors == {MissingError, AgeError, IncomeError, DependentsError, RiskError}

Complete(resp) ==
    /\ resp.status = 200
    /\ resp.success
    /\ resp.recommendation.type # ""
    /\ resp.recommendation.coverage # ""
    /\ resp.recommendation.duration # ""
    /\ resp.recommendation.explanation # ""

\* C16: a request takes only the transitions Validating -> Rejected and
\* Validating -> Computing -> Responded; Rejected and Responded are terminal and
\* exclusive; one response is sent per request, on entering Rejected (a
\* validation error) or Responded (a recommendation with all four fields set),
\* and it is never replaced.
C16_RequestStateMachine ==
    /\ [](\A r \in Requests :
            /\ ~Finished(r) => response[r] = NoResponse
            /\ pc[r] = "Rejected" =>
                response[r] \in ValidationErrors /\ rec[r] = NoRec /\ query[r] = "none"
            /\ pc[r] = "Responded" => Complete(response[r]))
    /\ [][\A r \in Requests :
            /\ Stage(r)' # Stage(r) => <<Stage(r), Stage(r)'>> \in Transitions
            /\ response'[r] # response[r] => response[r] = NoResponse]_vars

C16_Witness ==
    \E r, q \in Requests :
        /\ pc[r] = "Rejected" /\ response[r] = AgeError
        /\ pc[q] = "Responded" /\ Complete(response[q])

Issued(r) == query[r] # "none"
Stored(r) == query[r] = "fulfilled"

\* C17: a request that passed validation issues one append, when its handler
\* reaches the await, carrying its profile and the recommendation returned to
\* the caller; a settled write is never issued again; a rejected request issues
\* none; rows are only ever appended, one per stored write, so the number of
\* audit records is at most the number of accepted requests.
C17_OneWritePerAcceptedRequest ==
    /\ [](/\ \A r \in Requests :
                /\ Issued(r) <=> pc[r] \in {"Awaiting", "Responded"}
                /\ pc[r] = "Responded" => response[r].recommendation = rec[r]
                /\ Stored(r) =>
                    \E i \in DOMAIN submissions : submissions[i] = Row(i, body[r], rec[r])
          /\ \A i \in DOMAIN submissions :
                \E r \in Requests : Stored(r) /\ submissions[i] = Row(i, body[r], rec[r])
          /\ Len(submissions) = Cardinality({r \in Requests : Stored(r)})
          /\ Len(submissions) <= Cardinality({r \in Requests : Issued(r)}))
    /\ [][/\ \A r \in Requests :
                /\ (query'[r] = "pending" /\ query[r] # "pending") =>
                        query[r] = "none" /\ pc[r] = "Computing"
                /\ query[r] \notin {"none", "pending"} => query'[r] = query[r]
          /\ \A i \in DOMAIN submissions :
                i \in DOMAIN submissions' /\ submissions'[i] = submissions[i]]_vars

\* Two accepted requests answered, the write of one stored and the write of
\* the other failed and dropped.
C17_Witness ==
    \E r, q \in Requests :
        /\ pc[r] = "Responded" /\ Stored(r)
        /\ pc[q] = "Responded" /\ query[q] \in StorageErrors
        /\ Len(submissions) = 1

====
